---------------------------- MODULE Spec2Model ----------------------------
(***************************************************************************)
(* A model of the AI-Adventure client (src/App.tsx): the directive parser  *)
(* parseGeminiResponse, the handlers of the App component that reconcile   *)
(* a reply with the world state, the debounced auto-save, and the          *)
(* image-fetch completions.                                                *)
(*                                                                         *)
(* Text is modelled as sequences of tokens (whitespace, words, numerals,   *)
(* the bracketed tags and the symbols ] , =), so that trim, startsWith,    *)
(* the regular expressions, split and parseInt are computed as the code    *)
(* computes them.  A value that may be null or undefined is a sequence of  *)
(* length 0 (absent) or 1 (present).                                       *)
(***************************************************************************)
EXTENDS Integers, Sequences, FiniteSets, TLC

(***************************************************************************)
(* Bounds of the model.                                                    *)
(***************************************************************************)
\* A player action is accepted only while the log has room for it and its reply.
MaxLog == 5
\* Replies of the generator have at most this many directive lines.
MaxReplyLines == 2
\* Image fetches in flight at one time.
MaxFetches == 1
\* Replies that would raise the Enemy's health above this are not drawn.
MaxEnemyHealth == 80
\* The texts parseGeminiResponse is applied to on its own have at most this
\* many lines.
MaxParsedLines == 3

(***************************************************************************)
(* Tokens.                                                                 *)
(***************************************************************************)
Ws == [t |-> "ws", v |-> " ", n |-> 0]
NL == [t |-> "nl", v |-> "\n", n |-> 0]
W(s) == [t |-> "word", v |-> s, n |-> 0]
\* A numeral: sign "", "+" or "-", and its digits' value.
Num(sgn, k) == [t |-> "num", v |-> sgn, n |-> k]
Tag(s) == [t |-> "tag", v |-> s, n |-> 0]
Close == [t |-> "sym", v |-> "]", n |-> 0]
Comma == [t |-> "sym", v |-> ",", n |-> 0]
Eq == [t |-> "sym", v |-> "=", n |-> 0]

TagAdd == Tag("[INVENTORY_ADD:")
TagRemove == Tag("[INVENTORY_REMOVE:")
TagImage == Tag("[IMAGE_PROMPT:")
TagStat == Tag("[STAT_UPDATE:")
TagCombatStart == Tag("[COMBAT_START:")
TagCombatEnd == Tag("[COMBAT_END]")

IsSpace(tok) == tok.t \in {"ws", "nl"}

\* The characters of a token.
TokText(tok) == IF tok.t = "num" THEN tok.v \o ToString(tok.n) ELSE tok.v

RECURSIVE Text(_)
Text(toks) == IF toks = <<>> THEN "" ELSE TokText(Head(toks)) \o Text(Tail(toks))

(***************************************************************************)
(* String.prototype.trim, startsWith, split, and Array.prototype.join.     *)
(***************************************************************************)
RECURSIVE TrimLeft(_)
TrimLeft(toks) ==
    IF toks # <<>> /\ IsSpace(Head(toks)) THEN TrimLeft(Tail(toks)) ELSE toks

RECURSIVE TrimRight(_)
TrimRight(toks) ==
    IF toks # <<>> /\ IsSpace(toks[Len(toks)])
    THEN TrimRight(SubSeq(toks, 1, Len(toks) - 1))
    ELSE toks

Trim(toks) == TrimRight(TrimLeft(toks))

StartsWith(toks, tag) == toks # <<>> /\ Head(toks) = tag

\* split(sep): the pieces between the occurrences of sep.
RECURSIVE SplitAcc(_, _, _)
SplitAcc(toks, sep, cur) ==
    IF toks = <<>> THEN <<cur>>
    ELSE IF Head(toks) = sep
         THEN <<cur>> \o SplitAcc(Tail(toks), sep, <<>>)
         ELSE SplitAcc(Tail(toks), sep, Append(cur, Head(toks)))

Split(toks, sep) == SplitAcc(toks, sep, <<>>)

\* lines.join('\n')
RECURSIVE JoinLines(_)
JoinLines(lines) ==
    IF lines = <<>> THEN <<>>
    ELSE IF Len(lines) = 1 THEN Head(lines)
    ELSE Head(lines) \o <<NL>> \o JoinLines(Tail(lines))

\* parseInt(value, 10): leading whitespace is skipped, an optional sign and
\* digits are read, what follows is ignored; without digits the result is NaN,
\* modelled as the empty sequence.  value is undefined when there was no "=".
NaN == <<>>
ParseInt(value) ==
    LET s == IF value = <<>> THEN <<>> ELSE TrimLeft(value[1])
    IN IF s # <<>> /\ Head(s).t = "num"
       THEN <<IF Head(s).v = "-" THEN 0 - Head(s).n ELSE Head(s).n>>
       ELSE NaN

(***************************************************************************)
(* The regular expressions of parseGeminiResponse.                         *)
(***************************************************************************)
Positions(toks, tok) == {i \in 1..Len(toks) : toks[i] = tok}

Max(S) == CHOOSE m \in S : \A k \in S : k <= m
Min(S) == CHOOSE m \in S : \A k \in S : m <= k

\* line.match(/\[TAG:\s*(.+)\]/): group 1, or <<>> when there is no match.
\* The group is greedy up to the last "]" of the line; \s* gives back one
\* space when nothing else is left for the group.
MatchPayload(line, tag) ==
    LET starts == Positions(line, tag)
        ends == Positions(line, Close)
    IN IF starts = {} \/ ends = {} THEN <<>>
       ELSE LET i == Min(starts)
                j == Max(ends)
                rest == SubSeq(line, i + 1, j - 1)
            IN IF j <= i + 1 THEN <<>>
               ELSE IF TrimLeft(rest) # <<>> THEN <<TrimLeft(rest)>>
               ELSE <<SubSeq(rest, Len(rest), Len(rest))>>

\* The tail ",\s*health=(\d+)\s*\]" at the head of toks: group 2, or <<>>.
MatchHealthTail(toks) ==
    IF toks = <<>> \/ Head(toks) # Comma THEN <<>>
    ELSE LET a == TrimLeft(Tail(toks))
         IN IF Len(a) >= 3 /\ a[1] = W("health") /\ a[2] = Eq
               /\ a[3].t = "num" /\ a[3].v = ""
               /\ StartsWith(TrimLeft(SubSeq(a, 4, Len(a))), Close)
            THEN <<a[3].n>>
            ELSE <<>>

\* line.match(/\[COMBAT_START:\s*name=(.+?),\s*health=(\d+)\s*\]/) from the
\* tag at position i: <<group 1, group 2>>, or <<>>.  Group 1 is lazy: the
\* shortest non-empty run after which the tail matches.
MatchCombatAt(line, i) ==
    LET a == TrimLeft(SubSeq(line, i + 1, Len(line)))
    IN IF Len(a) >= 2 /\ a[1] = W("name") /\ a[2] = Eq
       THEN LET b == SubSeq(a, 3, Len(a))
                ks == {k \in 1..Len(b) :
                          MatchHealthTail(SubSeq(b, k + 1, Len(b))) # <<>>}
            IN IF ks = {} THEN <<>>
               ELSE LET k == Min(ks)
                    IN <<[name |-> SubSeq(b, 1, k),
                          health |-> MatchHealthTail(SubSeq(b, k + 1, Len(b)))[1]]>>
       ELSE <<>>

MatchCombatStart(line) ==
    LET hits == {i \in Positions(line, TagCombatStart) : MatchCombatAt(line, i) # <<>>}
    IN IF hits = {} THEN <<>> ELSE MatchCombatAt(line, Min(hits))

(***************************************************************************)
(* parseGeminiResponse.  A reply is its sequence of lines                  *)
(* (responseText.split('\n')), each a sequence of tokens.                  *)
(***************************************************************************)
EmptyParse ==
    [narrativeLines |-> <<>>, itemsToAdd |-> <<>>, itemsToRemove |-> <<>>,
     imagePrompt |-> <<>>, statUpdates |-> <<>>, combatStart |-> <<>>,
     combatEnd |-> FALSE]

\* Variant: the value of a key already there is added to.
SetStatSum(updates, stat, num) ==
    IF \E i \in 1..Len(updates) : updates[i][1] = stat
    THEN [i \in 1..Len(updates) |->
             IF updates[i][1] = stat THEN <<stat, updates[i][2] + num>>
             ELSE updates[i]]
    ELSE Append(updates, <<stat, num>>)

\* statUpdates is a sequence of <<key, value>> pairs with distinct keys:
\* statUpdates[stat] = numValue replaces the value of a key already there.
SetStat(updates, stat, num) ==
    IF \E i \in 1..Len(updates) : updates[i][1] = stat
    THEN [i \in 1..Len(updates) |->
             IF updates[i][1] = stat THEN <<stat, num>> ELSE updates[i]]
    ELSE Append(updates, <<stat, num>>)

HasStat(updates, stat) == \E i \in 1..Len(updates) : updates[i][1] = stat
StatOf(updates, stat) ==
    updates[CHOOSE i \in 1..Len(updates) : updates[i][1] = stat][2]

\* Variant: a value that is not a number counts as 0.
ApplyStatEntryNaNAsZero(updates, update) ==
    LET parts == Split(update, Eq)
        stat == Text(Trim(parts[1]))
        value == IF Len(parts) >= 2 THEN <<Trim(parts[2])>> ELSE <<>>
        numValue == ParseInt(value)
    IN IF stat # ""
       THEN SetStat(updates, stat, IF numValue = NaN THEN 0 ELSE numValue[1])
       ELSE updates

\* One entry "stat=value" of a STAT_UPDATE line.
ApplyStatEntry(updates, update) ==
    LET parts == Split(update, Eq)
        stat == Text(Trim(parts[1]))
        value == IF Len(parts) >= 2 THEN <<Trim(parts[2])>> ELSE <<>>
        numValue == ParseInt(value)
    IN IF stat # "" /\ numValue # NaN
       THEN SetStat(updates, stat, numValue[1])
       ELSE updates

RECURSIVE ApplyStatEntries(_, _)
ApplyStatEntries(updates, entries) ==
    IF entries = <<>> THEN updates
    ELSE ApplyStatEntries(ApplyStatEntry(updates, Head(entries)), Tail(entries))

\* The body of the loop over the lines.
ParseLine(acc, line) ==
    LET t == Trim(line)
    IN IF StartsWith(t, TagAdd)
       THEN LET m == MatchPayload(line, TagAdd)
            IN IF m # <<>>
               THEN [acc EXCEPT !.itemsToAdd = Append(@, Text(Trim(m[1])))]
               ELSE acc
       ELSE IF StartsWith(t, TagRemove)
       THEN LET m == MatchPayload(line, TagRemove)
            IN IF m # <<>>
               THEN [acc EXCEPT !.itemsToRemove = Append(@, Text(Trim(m[1])))]
               ELSE acc
       ELSE IF StartsWith(t, TagImage)
       THEN LET m == MatchPayload(line, TagImage)
            IN IF m # <<>>
               THEN [acc EXCEPT !.imagePrompt = <<Text(Trim(m[1]))>>]
               ELSE acc
       ELSE IF StartsWith(t, TagStat)
       THEN LET m == MatchPayload(line, TagStat)
            IN IF m # <<>>
               THEN [acc EXCEPT !.statUpdates =
                        ApplyStatEntries(@, Split(m[1], Comma))]
               ELSE acc
       ELSE IF StartsWith(t, TagCombatStart)
       THEN LET m == MatchCombatStart(line)
            IN IF m # <<>>
               THEN [acc EXCEPT !.combatStart =
                        <<[name |-> Text(Trim(m[1].name)), health |-> m[1].health]>>]
               ELSE acc
       ELSE IF t = <<TagCombatEnd>>
       THEN [acc EXCEPT !.combatEnd = TRUE]
       ELSE [acc EXCEPT !.narrativeLines = Append(@, line)]

RECURSIVE ParseLines(_, _)
ParseLines(acc, lines) ==
    IF lines = <<>> THEN acc
    ELSE ParseLines(ParseLine(acc, Head(lines)), Tail(lines))

parseGeminiResponse(responseText) ==
    LET acc == ParseLines(EmptyParse, responseText)
    IN [narrative |-> Text(Trim(JoinLines(acc.narrativeLines))),
        itemsToAdd |-> acc.itemsToAdd,
        itemsToRemove |-> acc.itemsToRemove,
        imagePrompt |-> acc.imagePrompt,
        statUpdates |-> acc.statUpdates,
        combatStart |-> acc.combatStart,
        combatEnd |-> acc.combatEnd]


(***************************************************************************)
(* The replies the generator is taken to send: a line of prose followed by *)
(* at most MaxReplyLines directive lines, in every order.                  *)
(***************************************************************************)
LineProse == <<W("You"), Ws, W("wait.")>>
LineAddTorch == <<TagAdd, Ws, W("torch"), Close>>
LineRemoveTorch == <<TagRemove, Ws, W("torch"), Close>>
LineImage == <<TagImage, Ws, W("a"), Ws, W("cave"), Close>>
LineHurt == <<TagStat, Ws, W("health"), Eq, Num("-", 150), Comma, Ws,
              W("mana"), Eq, Num("-", 60), Comma, Ws,
              W("stamina"), Eq, Num("-", 90), Close>>
LineRest == <<TagStat, Ws, W("health"), Eq, Num("+", 60), Close>>
LineWaver == <<TagStat, Ws, W("health"), Eq, Num("-", 150), Comma, Ws,
               W("health"), Eq, Num("+", 60), Close>>
LineHitEnemy == <<TagStat, Ws, W("enemyHealth"), Eq, Num("-", 150), Close>>
LineHealEnemy == <<TagStat, Ws, W("enemyHealth"), Eq, Num("+", 50), Close>>
LineCombatStart == <<TagCombatStart, Ws, W("name"), Eq, W("Wolf"), Comma, Ws,
                     W("health"), Eq, Num("", 30), Close>>
LineCombatEnd == <<TagCombatEnd>>

DirectiveLines ==
    {LineAddTorch, LineRemoveTorch, LineImage, LineHurt, LineRest, LineWaver,
     LineHitEnemy, LineHealEnemy, LineCombatStart, LineCombatEnd}

Replies ==
    {<<LineProse>> \o d : d \in UNION {[1..k -> DirectiveLines] : k \in 0..MaxReplyLines}}

\* parseGeminiResponse on these replies, tabulated.
ParseTable == [r \in Replies |-> parseGeminiResponse(r)] @@ <<>>

\* What the player types.
PlayerInputs == {"look"}

(***************************************************************************)
(* The state of the App component, the store, and the asynchronous work in *)
(* flight.                                                                 *)
(***************************************************************************)
VARIABLES
    gameState,              \* "START_SCREEN", "PLAYING" or "ERROR"
    storyHistory,           \* the narrative log: a sequence of segments
    inventory,              \* a sequence of item names
    playerStats,            \* health, mana, stamina: [current, max]
    isInCombat,
    currentEnemy,           \* <<>> or <<[name, health: [current, max]]>>
    isLoading,
    errorMessage,           \* <<>> or <<message>>
    chatSession,            \* <<>> or <<the length of its history, in turns>>
    hasSaveGame,
    isSaveDisabledByQuota,
    localStorage,           \* the item under SAVE_KEY: <<>> or <<string>>
    saveTimer,              \* the timers of the auto-save effect that are
                            \* pending, oldest first: what each saveGame reads
    pendingStart,           \* handleStartGame awaits startAdventure
    pendingAction,          \* the calls of handlePlayerAction that await
                            \* continueAdventure: the values each closure captured
    imageFetches,           \* generateImage calls in flight
    last,                   \* history: the handler that ran last and its input
    parserInput,            \* parseGeminiResponse on its own: its argument
    parsed                  \* and <<>> or <<what it returned>>

vars == <<gameState, storyHistory, inventory, playerStats, isInCombat,
          currentEnemy, isLoading, errorMessage, chatSession, hasSaveGame,
          isSaveDisabledByQuota, localStorage, saveTimer, pendingStart,
          pendingAction, imageFetches, last, parserInput, parsed>>

appVars == <<gameState, storyHistory, inventory, playerStats, isInCombat,
             currentEnemy, isLoading, errorMessage, chatSession, hasSaveGame,
             isSaveDisabledByQuota, localStorage, saveTimer, pendingStart,
             pendingAction, imageFetches, last>>

Null == <<>>
Some(x) == <<x>>

DefaultStats ==
    [health |-> [current |-> 100, max |-> 100],
     mana |-> [current |-> 50, max |-> 50],
     stamina |-> [current |-> 80, max |-> 80]]

Segment(id, type, text, loading) ==
    [id |-> id, type |-> type, text |-> text,
     imageUrl |-> Null, isImageLoading |-> loading]

\* Variant: every reply is taken to hold an image prompt.
TruthyAlways(opt) == TRUE

\* A non-empty string is truthy; null and "" are not.
Truthy(opt) == opt # Null /\ opt[1] # ""

Event(op, reply, fetch) == [op |-> op, reply |-> reply, fetch |-> fetch]

(***************************************************************************)
(* JSON.stringify and JSON.parse on the store's strings.  A string that is *)
(* not JSON makes parse throw (<<>> here).                                 *)
(***************************************************************************)
JSONstringify(value) == [json |-> TRUE, value |-> Some(value)]
NotJSON == [json |-> FALSE, value |-> Null]
JSONparse(string) == IF string.json THEN string.value ELSE Null

(***************************************************************************)
(* The steps of the reconciliation in handlePlayerAction.                  *)
(***************************************************************************)
MathMax(a, b) == IF a >= b THEN a ELSE b
MathMin(a, b) == IF a <= b THEN a ELSE b

\* Variant: combatStart leaves an Enemy that is already there as it is.
CombatStartStepKeepsEnemy(c, combatStart) ==
    IF combatStart # Null
    THEN IF c.currentEnemy # Null
         THEN [c EXCEPT !.isInCombat = TRUE]
         ELSE [isInCombat |-> TRUE,
               currentEnemy |-> Some([name |-> combatStart[1].name,
                                      health |-> [current |-> combatStart[1].health,
                                                  max |-> combatStart[1].health]])]
    ELSE c

\* 1. Combat state changes, on c = [isInCombat, currentEnemy].
CombatStartStep(c, combatStart) ==
    IF combatStart # Null
    THEN [isInCombat |-> TRUE,
          currentEnemy |-> Some([name |-> combatStart[1].name,
                                 health |-> [current |-> combatStart[1].health,
                                             max |-> combatStart[1].health]])]
    ELSE c

\* Variant: combatEnd clears the flag and forgets the Enemy.
CombatEndStepKeepsEnemy(c, combatEnd) ==
    IF combatEnd THEN [c EXCEPT !.isInCombat = FALSE] ELSE c

CombatEndStep(c, combatEnd) ==
    IF combatEnd THEN [isInCombat |-> FALSE, currentEnemy |-> Null] ELSE c

\* Variant: combatEnd is applied before combatStart.
CombatTransitionsEndFirst(c, combatStart, combatEnd) ==
    CombatStartStep(CombatEndStep(c, combatEnd), combatStart)

CombatTransitions(c, combatStart, combatEnd) ==
    CombatEndStep(CombatStartStep(c, combatStart), combatEnd)

\* 2. Stat updates.
\* Variant: the lower clamp Math.max(0, ...) is missing.
ClampStatNoFloor(stat, change) ==
    [stat EXCEPT !.current = MathMin(stat.max, stat.current + change)]

ClampStat(stat, change) ==
    [stat EXCEPT !.current = MathMax(0, MathMin(stat.max, stat.current + change))]

UpdatePlayerStats(prevStats, statUpdates) ==
    [statKey \in DOMAIN prevStats |->
        IF HasStat(statUpdates, statKey)
        THEN ClampStat(prevStats[statKey], StatOf(statUpdates, statKey))
        ELSE prevStats[statKey]]

EnemyHealthAfter(health, change) ==
    [health EXCEPT !.current = MathMax(0, health.current + change)]

\* Variant: the Enemy of the render is read, not the updater's argument.
UpdateEnemyOfRender(prevEnemy, statUpdates) ==
    IF HasStat(statUpdates, "enemyHealth")
    THEN IF currentEnemy = Null THEN Null
         ELSE Some([currentEnemy[1] EXCEPT !.health =
                       EnemyHealthAfter(@, StatOf(statUpdates, "enemyHealth"))])
    ELSE prevEnemy

UpdateEnemy(prevEnemy, statUpdates) ==
    IF HasStat(statUpdates, "enemyHealth")
    THEN IF prevEnemy = Null THEN Null
         ELSE Some([prevEnemy[1] EXCEPT !.health =
                       EnemyHealthAfter(@, StatOf(statUpdates, "enemyHealth"))])
    ELSE prevEnemy

\* 3. Inventory updates.
Includes(seq, x) == \E i \in 1..Len(seq) : seq[i] = x

RECURSIVE Unique(_)
Unique(seq) ==
    IF seq = <<>> THEN <<>>
    ELSE LET init == Unique(SubSeq(seq, 1, Len(seq) - 1))
             x == seq[Len(seq)]
         IN IF Includes(init, x) THEN init ELSE Append(init, x)

\* Variant: the result is not passed through new Set.
UpdateInventoryNoSet(inv, itemsToAdd, itemsToRemove) ==
    SelectSeq(inv, LAMBDA item : ~Includes(itemsToRemove, item)) \o itemsToAdd

\* inventory.filter(...).concat(itemsToAdd), without its duplicates.
UpdateInventory(inv, itemsToAdd, itemsToRemove) ==
    Unique(SelectSeq(inv, LAMBDA item : ~Includes(itemsToRemove, item))
           \o itemsToAdd)

(***************************************************************************)
(* The auto-save effect: its guard, and the snapshot saveGame writes.      *)
(***************************************************************************)
\* Variant: the guard of the effect does not look at isSaveDisabledByQuota.
AutoSaveArmedDespiteQuota(gs, session, history, disabled) ==
    gs = "PLAYING" /\ session # Null /\ Len(history) # 0

AutoSaveArmed(gs, session, history, disabled) ==
    gs = "PLAYING" /\ session # Null /\ Len(history) # 0 /\ ~disabled

StoryHistoryForSave(history) ==
    [i \in 1..Len(history) |->
        [id |-> history[i].id, type |-> history[i].type, text |-> history[i].text]]

\* saveGame is created in a render and reads the state of that render.
SaveClosure(history, inv, stats, combat, enemy, session) ==
    [storyHistory |-> history, inventory |-> inv, playerStats |-> stats,
     isInCombat |-> combat, currentEnemy |-> enemy, chatSession |-> session]

\* Variant: the effect returns no cleanup, so a timer that was started is
\* never cleared.
AutoSaveEffectNoCleanup(timers, armed, closure) ==
    IF armed THEN Append(timers, closure) ELSE timers

\* The effect after a render in which one of its dependencies changed: the
\* cleanup of the previous run clears its timer, and the guard decides
\* whether setTimeout(saveGame, 500) starts another.
AutoSaveEffect(timers, armed, closure) ==
    IF armed THEN <<closure>> ELSE <<>>

\* Variant: the Enemy is not written.
SaveDataWithoutEnemy(closure) ==
    [storyHistory |-> StoryHistoryForSave(closure.storyHistory),
     chatHistory |-> IF chatSession # Null THEN chatSession[1]
                     ELSE closure.chatSession[1],
     inventory |-> closure.inventory,
     playerStats |-> closure.playerStats,
     isInCombat |-> closure.isInCombat,
     currentEnemy |-> Null]

\* chatSession.getHistory() reads the session object the closure holds; its
\* history is the one the state counts for as long as the state holds it.
SaveData(closure) ==
    [storyHistory |-> StoryHistoryForSave(closure.storyHistory),
     chatHistory |-> IF chatSession # Null THEN chatSession[1]
                     ELSE closure.chatSession[1],
     inventory |-> closure.inventory,
     playerStats |-> closure.playerStats,
     isInCombat |-> closure.isInCombat,
     currentEnemy |-> closure.currentEnemy]

\* The effect runs after the render that follows a handler, on the state
\* the handler has set.
RunAutoSaveEffect ==
    saveTimer' =
        AutoSaveEffect(saveTimer,
                       AutoSaveArmed(gameState', chatSession', storyHistory',
                                     isSaveDisabledByQuota'),
                       SaveClosure(storyHistory', inventory', playerStats',
                                   isInCombat', currentEnemy', chatSession'))

\* Variant: every exception is taken for a full store.
IsQuotaExceededAny(outcome) == outcome # "ok"

\* e instanceof DOMException && e.name === 'QuotaExceededError'
IsQuotaExceeded(outcome) == outcome = "quota"

QuotaWarning ==
    "[System Warning: The adventure has grown too large for auto-saving.]"


(***************************************************************************)
(* Mounting the App component: the useState initialisers and the effect    *)
(* that looks for a saved game.                                            *)
(***************************************************************************)
Mounted(store) ==
    /\ gameState = "START_SCREEN"
    /\ storyHistory = <<>>
    /\ inventory = <<>>
    /\ playerStats = DefaultStats
    /\ isInCombat = FALSE
    /\ currentEnemy = Null
    /\ isLoading = FALSE
    /\ errorMessage = Null
    /\ chatSession = Null
    /\ hasSaveGame = (store # Null)
    /\ isSaveDisabledByQuota = FALSE
    /\ localStorage = store
    /\ saveTimer = <<>>
    /\ pendingStart = FALSE
    /\ pendingAction = Null
    /\ imageFetches = {}
    /\ last = Event("mount", <<>>, Null)

\* What the store may hold when the page is first opened, besides nothing: a
\* string that is not JSON, objects without the transcript or without the
\* narrative log, and a saved game that has the two and nothing else.
ForeignStores ==
    LET log == <<[id |-> 0, type |-> "narrative", text |-> "You wait."]>>
    IN {NotJSON,
        JSONstringify([storyHistory |-> log]),
        JSONstringify([chatHistory |-> 1]),
        JSONstringify([storyHistory |-> log, chatHistory |-> 1])}

Init ==
    /\ \E store \in {Null} \cup {Some(string) : string \in ForeignStores} :
          Mounted(store)
    /\ parserInput = <<>>
    /\ parsed = Null

\* The page is loaded again: the store is kept, the component's state and
\* the work in flight are not.
AppMount ==
    /\ last.op # "mount"
    /\ gameState' = "START_SCREEN"
    /\ storyHistory' = <<>>
    /\ inventory' = <<>>
    /\ playerStats' = DefaultStats
    /\ isInCombat' = FALSE
    /\ currentEnemy' = Null
    /\ isLoading' = FALSE
    /\ errorMessage' = Null
    /\ chatSession' = Null
    /\ hasSaveGame' = (localStorage # Null)
    /\ isSaveDisabledByQuota' = FALSE
    /\ saveTimer' = <<>>
    /\ pendingStart' = FALSE
    /\ pendingAction' = Null
    /\ imageFetches' = {}
    /\ last' = Event("mount", <<>>, Null)
    /\ UNCHANGED <<localStorage, parserInput, parsed>>

(***************************************************************************)
(* What the screens let the player do (renderContent, StartScreen,         *)
(* ActionInput).                                                           *)
(***************************************************************************)
OnErrorScreen == errorMessage # Null
OnStartScreen == errorMessage = Null /\ gameState # "PLAYING"
OnGameScreen == errorMessage = Null /\ gameState = "PLAYING"

\* Variant: the form of ActionInput takes a submit while a call is pending.
CanSubmitActionWhileLoading == OnGameScreen

\* The form of ActionInput takes a submit.
CanSubmitAction == OnGameScreen /\ ~isLoading

\* A log is replaced: the fetches in flight were issued for the old one.
Stale(fetches) == {[f EXCEPT !.stale = TRUE] : f \in fetches}

(***************************************************************************)
(* handleStartGame.                                                        *)
(***************************************************************************)
\* Variant: the world of the previous session is not reset.
handleStartGameKeepsWorld ==
    /\ OnStartScreen /\ ~isLoading
    /\ isLoading' = TRUE
    /\ errorMessage' = Null
    /\ storyHistory' = <<>>
    /\ isSaveDisabledByQuota' = FALSE
    /\ localStorage' = Null
    /\ hasSaveGame' = FALSE
    /\ pendingStart' = TRUE
    /\ imageFetches' = Stale(imageFetches)
    /\ last' = Event("start", <<>>, Null)
    /\ UNCHANGED <<gameState, chatSession, pendingAction, inventory, playerStats,
                   isInCombat, currentEnemy, parserInput, parsed>>
    /\ RunAutoSaveEffect

\* Up to the await of startAdventure.
handleStartGame ==
    /\ OnStartScreen /\ ~isLoading
    /\ isLoading' = TRUE
    /\ errorMessage' = Null
    /\ storyHistory' = <<>>
    /\ inventory' = <<>>
    /\ playerStats' = DefaultStats
    /\ isInCombat' = FALSE
    /\ currentEnemy' = Null
    /\ isSaveDisabledByQuota' = FALSE
    /\ localStorage' = Null
    /\ hasSaveGame' = FALSE
    /\ pendingStart' = TRUE
    /\ imageFetches' = Stale(imageFetches)
    /\ last' = Event("start", <<>>, Null)
    /\ UNCHANGED <<gameState, chatSession, pendingAction,
                   parserInput, parsed>>
    /\ RunAutoSaveEffect

\* startAdventure returned the opening.
StartGameDone(opening) ==
    /\ pendingStart
    /\ \E p \in {ParseTable[opening]} :
       LET openingSegment == Segment(0, "narrative", p.narrative,
                                     Some(Truthy(p.imagePrompt)))
       IN /\ Truthy(p.imagePrompt) => Cardinality(imageFetches) < MaxFetches
          /\ chatSession' = Some(1)
          /\ storyHistory' = <<openingSegment>>
          /\ imageFetches' =
                IF Truthy(p.imagePrompt)
                THEN imageFetches \cup {[id |-> openingSegment.id, pos |-> 1, stale |-> FALSE]}
                ELSE imageFetches
          /\ gameState' = "PLAYING"
          /\ isLoading' = FALSE
          /\ pendingStart' = FALSE
          /\ last' = Event("opening", opening, Null)
    /\ UNCHANGED <<inventory, playerStats, isInCombat, currentEnemy, errorMessage,
                   hasSaveGame, isSaveDisabledByQuota, localStorage, pendingAction,
                   parserInput, parsed>>
    /\ RunAutoSaveEffect

\* startAdventure threw.
StartGameFail ==
    /\ pendingStart
    /\ errorMessage' = Some("Failed to start a new adventure with Gemini.")
    /\ gameState' = "ERROR"
    /\ isLoading' = FALSE
    /\ pendingStart' = FALSE
    /\ last' = Event("startFailed", <<>>, Null)
    /\ UNCHANGED <<storyHistory, inventory, playerStats, isInCombat, currentEnemy,
                   chatSession, hasSaveGame, isSaveDisabledByQuota, localStorage,
                   pendingAction, imageFetches,
                   parserInput, parsed>>
    /\ RunAutoSaveEffect

(***************************************************************************)
(* handleLoadGame.  resumeAdventure awaits nothing, so the handler runs to *)
(* its end before any other event; resumed says whether it threw.          *)
(***************************************************************************)
\* savedGame[key]: <<>> (undefined) when the object has no such property.
Get(obj, key) == IF key \in DOMAIN obj THEN Some(obj[key]) ELSE Null

\* value || default, for the values a saved game holds: an array or an
\* object is truthy, and false || false is false.
OrElse(value, default) == IF value = Null THEN default ELSE value[1]

\* Variant: only the narrative log is looked for.
CorruptedSaveLogOnly(savedGame) == Get(savedGame, "storyHistory") = Null

\* !savedGame.storyHistory || !savedGame.chatHistory
CorruptedSave(savedGame) ==
    Get(savedGame, "storyHistory") = Null \/ Get(savedGame, "chatHistory") = Null

LoadedStoryHistory(saved) ==
    [i \in 1..Len(saved) |->
        [id |-> saved[i].id, type |-> saved[i].type, text |-> saved[i].text,
         imageUrl |-> Null, isImageLoading |-> Some(FALSE)]]

handleLoadGame(resumed) ==
    /\ OnStartScreen /\ hasSaveGame /\ ~isLoading
    /\ IF localStorage = Null
       THEN /\ errorMessage' = Some("No saved game found.")
            /\ gameState' = "ERROR"
            /\ UNCHANGED <<storyHistory, inventory, playerStats, isInCombat,
                           currentEnemy, chatSession, hasSaveGame, localStorage,
                           imageFetches>>
       ELSE \E savedGame \in {JSONparse(localStorage[1])} :
               IF savedGame # Null /\ ~CorruptedSave(savedGame[1]) /\ resumed
               THEN \E history \in {OrElse(Get(savedGame[1], "chatHistory"), 0)} :
                       /\ chatSession' = Some(history)
                       /\ storyHistory' = LoadedStoryHistory(savedGame[1].storyHistory)
                       /\ inventory' = OrElse(Get(savedGame[1], "inventory"), <<>>)
                       /\ playerStats' =
                             OrElse(Get(savedGame[1], "playerStats"), DefaultStats)
                       /\ isInCombat' = OrElse(Get(savedGame[1], "isInCombat"), FALSE)
                       /\ currentEnemy' =
                             OrElse(Get(savedGame[1], "currentEnemy"), Null)
                       /\ gameState' = "PLAYING"
                       /\ errorMessage' = Null
                       /\ imageFetches' = Stale(imageFetches)
                       /\ UNCHANGED <<hasSaveGame, localStorage>>
               ELSE /\ errorMessage' =
                          Some("Failed to load saved game. " \o
                               (IF savedGame = Null THEN "Unexpected token"
                                ELSE IF CorruptedSave(savedGame[1])
                                     THEN "Save data is corrupted."
                                     ELSE "Failed to resume the adventure with Gemini."))
                    /\ localStorage' = Null
                    /\ hasSaveGame' = FALSE
                    /\ gameState' = "ERROR"
                    /\ UNCHANGED <<storyHistory, inventory, playerStats, isInCombat,
                                   currentEnemy, chatSession, imageFetches>>
    /\ isLoading' = FALSE
    /\ last' = Event("load", <<>>, Null)
    /\ UNCHANGED <<isSaveDisabledByQuota, pendingStart, pendingAction,
                   parserInput, parsed>>
    /\ RunAutoSaveEffect


(***************************************************************************)
(* handlePlayerAction.                                                     *)
(***************************************************************************)
\* Up to the await of continueAdventure.  The closure keeps the length of
\* the log and the inventory of the render it was created in.
handlePlayerAction(action) ==
    /\ CanSubmitAction
    /\ Len(storyHistory) + 2 <= MaxLog
    /\ IF chatSession = Null
       THEN /\ errorMessage' = Some("The adventure session is not active.")
            /\ gameState' = "ERROR"
            /\ UNCHANGED <<storyHistory, isLoading, pendingAction>>
       ELSE LET newActionSegment == Segment(Len(storyHistory), "action", action, Null)
            IN /\ isLoading' = TRUE
               /\ errorMessage' = Null
               /\ storyHistory' = Append(storyHistory, newActionSegment)
               /\ pendingAction' = Append(pendingAction,
                                           [length |-> Len(storyHistory),
                                            inventory |-> inventory])
               /\ UNCHANGED gameState
    /\ last' = Event("action", <<>>, Null)
    /\ UNCHANGED <<inventory, playerStats, isInCombat, currentEnemy, chatSession,
                   hasSaveGame, isSaveDisabledByQuota, localStorage, pendingStart,
                   imageFetches,
                   parserInput, parsed>>
    /\ RunAutoSaveEffect

\* The world state after the reply p is reconciled, in the order of the code.
Reconciled(p, closure) ==
    LET combat == CombatTransitions([isInCombat |-> isInCombat,
                                     currentEnemy |-> currentEnemy],
                                    p.combatStart, p.combatEnd)
        newNarrativeSegment == Segment(closure.length + 1, "narrative", p.narrative,
                                       Some(Truthy(p.imagePrompt)))
    IN [isInCombat |-> combat.isInCombat,
        currentEnemy |-> IF Len(p.statUpdates) > 0
                         THEN UpdateEnemy(combat.currentEnemy, p.statUpdates)
                         ELSE combat.currentEnemy,
        playerStats |-> IF Len(p.statUpdates) > 0
                        THEN UpdatePlayerStats(playerStats, p.statUpdates)
                        ELSE playerStats,
        inventory |-> IF Len(p.itemsToAdd) > 0 \/ Len(p.itemsToRemove) > 0
                      THEN UpdateInventory(closure.inventory, p.itemsToAdd,
                                           p.itemsToRemove)
                      ELSE inventory,
        storyHistory |-> Append(storyHistory, newNarrativeSegment),
        fetch |-> IF Truthy(p.imagePrompt)
                  THEN {[id |-> newNarrativeSegment.id,
                         pos |-> Len(storyHistory) + 1, stale |-> FALSE]}
                  ELSE {}]

\* pendingAction without its k-th call.
Settled(k) ==
    SubSeq(pendingAction, 1, k - 1) \o SubSeq(pendingAction, k + 1, Len(pendingAction))

\* continueAdventure returned rawResponse to the k-th call.
PlayerActionReply(k, rawResponse) ==
    /\ k \in DOMAIN pendingAction
    /\ last' = Event("reply", rawResponse, Null)
    /\ \E r \in {Reconciled(ParseTable[rawResponse], pendingAction[k])} :
          /\ r.fetch # {} => Cardinality(imageFetches) < MaxFetches
          /\ r.currentEnemy # Null =>
                r.currentEnemy[1].health.current <= MaxEnemyHealth
          /\ isInCombat' = r.isInCombat
          /\ currentEnemy' = r.currentEnemy
          /\ playerStats' = r.playerStats
          /\ inventory' = r.inventory
          /\ storyHistory' = r.storyHistory
          /\ imageFetches' = imageFetches \cup r.fetch
    /\ chatSession' = IF chatSession = Null THEN Null ELSE Some(chatSession[1] + 1)
    /\ isLoading' = FALSE
    /\ pendingAction' = Settled(k)
    /\ UNCHANGED <<gameState, errorMessage, hasSaveGame, isSaveDisabledByQuota,
                   localStorage, pendingStart,
                   parserInput, parsed>>
    /\ RunAutoSaveEffect

\* Variant: the failure is reported as handleStartGame reports its own.
PlayerActionFailFatal(k) ==
    /\ k \in DOMAIN pendingAction
    /\ errorMessage' = Some("Failed to continue the adventure with Gemini.")
    /\ gameState' = "ERROR"
    /\ isLoading' = FALSE
    /\ pendingAction' = Settled(k)
    /\ last' = Event("replyFailed", <<>>, Null)
    /\ UNCHANGED <<storyHistory, inventory, playerStats, isInCombat, currentEnemy,
                   chatSession, hasSaveGame, isSaveDisabledByQuota, localStorage,
                   pendingStart, imageFetches, parserInput, parsed>>
    /\ RunAutoSaveEffect

\* Variant: the handler has no finally, and a failure leaves isLoading set.
PlayerActionFailKeepsLoading(k) ==
    /\ k \in DOMAIN pendingAction
    /\ LET errorSegment ==
              Segment(pendingAction[k].length + 1, "system",
                      "A mysterious force prevents you from proceeding...", Null)
       IN storyHistory' = Append(storyHistory, errorSegment)
    /\ pendingAction' = Settled(k)
    /\ last' = Event("replyFailed", <<>>, Null)
    /\ UNCHANGED <<gameState, inventory, playerStats, isInCombat, currentEnemy,
                   errorMessage, chatSession, hasSaveGame, isSaveDisabledByQuota,
                   localStorage, pendingStart, imageFetches, isLoading,
                   parserInput, parsed>>
    /\ RunAutoSaveEffect

\* continueAdventure threw in the k-th call.
PlayerActionFail(k) ==
    /\ k \in DOMAIN pendingAction
    /\ LET errorSegment ==
              Segment(pendingAction[k].length + 1, "system",
                      "A mysterious force prevents you from proceeding...", Null)
       IN /\ storyHistory' = Append(storyHistory, errorSegment)
    /\ isLoading' = FALSE
    /\ pendingAction' = Settled(k)
    /\ last' = Event("replyFailed", <<>>, Null)
    /\ UNCHANGED <<gameState, inventory, playerStats, isInCombat, currentEnemy,
                   errorMessage, chatSession, hasSaveGame, isSaveDisabledByQuota,
                   localStorage, pendingStart, imageFetches,
                   parserInput, parsed>>
    /\ RunAutoSaveEffect

(***************************************************************************)
(* The completion of generateImage, in handleStartGame and in              *)
(* handlePlayerAction: the segments with the id of the fetch are patched.  *)
(***************************************************************************)
\* Variant: the patched segment is built without the spread of the old one
\* and keeps its id only.
PatchImageWithoutSpread(history, id, ok) ==
    [i \in 1..Len(history) |->
        IF history[i].id = id
        THEN [id |-> history[i].id, type |-> "", text |-> "",
              imageUrl |-> IF ok THEN Some("data:image/png;base64")
                           ELSE history[i].imageUrl,
              isImageLoading |-> Some(FALSE)]
        ELSE history[i]]

\* Variant: only a fetch that succeeded patches the log.
PatchImageOnSuccessOnly(history, id, ok) ==
    IF ok
    THEN [i \in 1..Len(history) |->
             IF history[i].id = id
             THEN [history[i] EXCEPT !.imageUrl = Some("data:image/png;base64"),
                                     !.isImageLoading = Some(FALSE)]
             ELSE history[i]]
    ELSE history

\* Variant: a failed fetch leaves the segment marked as loading.
PatchImageFailureLoading(history, id, ok) ==
    [i \in 1..Len(history) |->
        IF history[i].id = id
        THEN IF ok
             THEN [history[i] EXCEPT !.imageUrl = Some("data:image/png;base64"),
                                     !.isImageLoading = Some(FALSE)]
             ELSE [history[i] EXCEPT !.isImageLoading = Some(TRUE)]
        ELSE history[i]]

PatchImage(history, id, ok) ==
    [i \in 1..Len(history) |->
        IF history[i].id = id
        THEN IF ok
             THEN [history[i] EXCEPT !.imageUrl = Some("data:image/png;base64"),
                                     !.isImageLoading = Some(FALSE)]
             ELSE [history[i] EXCEPT !.isImageLoading = Some(FALSE)]
        ELSE history[i]]

ImageDone(f, ok) ==
    /\ f \in imageFetches
    /\ last' = Event(IF ok THEN "image" ELSE "imageFailed", <<>>, Some(f))
    /\ storyHistory' = PatchImage(storyHistory, f.id, ok)
    /\ imageFetches' = imageFetches \ {f}
    /\ UNCHANGED <<gameState, inventory, playerStats, isInCombat, currentEnemy,
                   isLoading, errorMessage, chatSession, hasSaveGame,
                   isSaveDisabledByQuota, localStorage, pendingStart, pendingAction,
                   parserInput, parsed>>
    /\ RunAutoSaveEffect

(***************************************************************************)
(* saveGame: the timer of the auto-save effect fires.  The effect runs     *)
(* again, and restarts the timer, after every change of the state it       *)
(* depends on, so saveGame sees the current state.  outcome is what        *)
(* getHistory and setItem do: "ok", "quota" (QuotaExceededError) or        *)
(* "error" (any other exception).                                          *)
(***************************************************************************)
\* Variant: a quota failure is reported and auto-save goes on.
saveGameWarnsOnly(outcome) ==
    /\ saveTimer # <<>>
    /\ CASE outcome = "ok" ->
              /\ IF SaveData(Head(saveTimer)).chatHistory > 0
                 THEN /\ localStorage' = Some(JSONstringify(SaveData(Head(saveTimer))))
                      /\ hasSaveGame' = TRUE
                 ELSE UNCHANGED <<localStorage, hasSaveGame>>
              /\ UNCHANGED storyHistory
         [] IsQuotaExceeded(outcome) ->
              /\ storyHistory' =
                    Append(storyHistory,
                           Segment(Len(storyHistory), "system", QuotaWarning, Null))
              /\ UNCHANGED <<localStorage, hasSaveGame>>
         [] OTHER ->
              UNCHANGED <<localStorage, hasSaveGame, storyHistory>>
    /\ last' = Event("save:" \o outcome, <<>>, Null)
    /\ UNCHANGED <<gameState, inventory, playerStats, isInCombat, currentEnemy,
                   isLoading, errorMessage, chatSession, pendingStart,
                   pendingAction, imageFetches, isSaveDisabledByQuota,
                   parserInput, parsed>>
    /\ IF storyHistory' # storyHistory
       THEN RunAutoSaveEffect
       ELSE saveTimer' = Tail(saveTimer)

saveGame(outcome) ==
    /\ saveTimer # <<>>
    /\ CASE outcome = "ok" ->
              /\ IF SaveData(Head(saveTimer)).chatHistory > 0
                 THEN /\ localStorage' = Some(JSONstringify(SaveData(Head(saveTimer))))
                      /\ hasSaveGame' = TRUE
                 ELSE UNCHANGED <<localStorage, hasSaveGame>>
              /\ UNCHANGED <<isSaveDisabledByQuota, storyHistory>>
         [] IsQuotaExceeded(outcome) ->
              /\ isSaveDisabledByQuota' = TRUE
              /\ storyHistory' =
                    Append(storyHistory,
                           Segment(Len(storyHistory), "system", QuotaWarning, Null))
              /\ UNCHANGED <<localStorage, hasSaveGame>>
         [] OTHER ->
              UNCHANGED <<localStorage, hasSaveGame, isSaveDisabledByQuota,
                          storyHistory>>
    /\ last' = Event("save:" \o outcome, <<>>, Null)
    /\ UNCHANGED <<gameState, inventory, playerStats, isInCombat, currentEnemy,
                   isLoading, errorMessage, chatSession, pendingStart,
                   pendingAction, imageFetches,
                   parserInput, parsed>>
    /\ IF IsQuotaExceeded(outcome)
       THEN RunAutoSaveEffect
       ELSE saveTimer' = Tail(saveTimer)

(***************************************************************************)
(* handleRestart: the Restart button of the game screen, and "Return to    *)
(* Start" of the error screen.                                             *)
(***************************************************************************)
\* Variant: the saved game is left in the store.
handleRestartKeepsSave ==
    /\ OnGameScreen \/ OnErrorScreen
    /\ gameState' = "START_SCREEN"
    /\ errorMessage' = Null
    /\ storyHistory' = <<>>
    /\ inventory' = <<>>
    /\ chatSession' = Null
    /\ playerStats' = DefaultStats
    /\ isInCombat' = FALSE
    /\ currentEnemy' = Null
    /\ isSaveDisabledByQuota' = FALSE
    /\ imageFetches' = Stale(imageFetches)
    /\ last' = Event("restart", <<>>, Null)
    /\ UNCHANGED <<localStorage, hasSaveGame, isLoading, pendingStart,
                   pendingAction, parserInput, parsed>>
    /\ RunAutoSaveEffect

handleRestart ==
    /\ OnGameScreen \/ OnErrorScreen
    /\ localStorage' = Null
    /\ hasSaveGame' = FALSE
    /\ gameState' = "START_SCREEN"
    /\ errorMessage' = Null
    /\ storyHistory' = <<>>
    /\ inventory' = <<>>
    /\ chatSession' = Null
    /\ playerStats' = DefaultStats
    /\ isInCombat' = FALSE
    /\ currentEnemy' = Null
    /\ isSaveDisabledByQuota' = FALSE
    /\ imageFetches' = Stale(imageFetches)
    /\ last' = Event("restart", <<>>, Null)
    /\ UNCHANGED <<isLoading, pendingStart, pendingAction,
                   parserInput, parsed>>
    /\ RunAutoSaveEffect

Next ==
    \/ AppMount
    \/ handleStartGame
    \/ \E opening \in Replies : StartGameDone(opening)
    \/ StartGameFail
    \/ \E resumed \in BOOLEAN : handleLoadGame(resumed)
    \/ \E action \in PlayerInputs : handlePlayerAction(action)
    \/ \E k \in DOMAIN pendingAction, rawResponse \in Replies :
          PlayerActionReply(k, rawResponse)
    \/ \E k \in DOMAIN pendingAction : PlayerActionFail(k)
    \/ \E f \in imageFetches, ok \in BOOLEAN : ImageDone(f, ok)
    \/ \E outcome \in {"ok", "quota", "error"} : saveGame(outcome)
    \/ handleRestart

Spec == Init /\ [][Next]_vars

(***************************************************************************)
(* The calls in flight settle: a promise of continueAdventure resolves or  *)
(* rejects (SpecLive), and so does one of generateImage (SpecImageLive).   *)
(* Nothing is assumed of the player, of the timer of auto-save or of       *)
(* startAdventure.                                                         *)
(***************************************************************************)
GeneratorSettles ==
    \E k \in DOMAIN pendingAction :
        \/ PlayerActionFail(k)
        \/ \E rawResponse \in Replies : PlayerActionReply(k, rawResponse)

ImageSettles == \E f \in imageFetches, ok \in BOOLEAN : ImageDone(f, ok)

SpecLive == Init /\ [][Next]_vars /\ WF_vars(GeneratorSettles)

SpecImageLive == Init /\ [][Next]_vars /\ WF_vars(ImageSettles)

(***************************************************************************)
(* parseGeminiResponse on its own: it is applied to every text of at most  *)
(* MaxParsedLines lines drawn from well-formed and malformed lines.        *)
(***************************************************************************)
LineTorchProse ==
    <<W("You"), Ws, W("pick"), Ws, W("up"), Ws, W("a"), Ws, W("torch.")>>
LineImageTorch ==
    <<TagImage, Ws, W("a"), Ws, W("torch"), Ws, W("on"), Ws, W("a"), Ws,
      W("table"), Close>>
LineIndentedAdd == <<Ws, Ws>> \o LineAddTorch \o <<Ws>>
LineStatBad ==
    <<TagStat, Ws, W("health"), Eq, W("abc"), Comma, Ws,
      W("mana"), Eq, Num("+", 5), Close>>
LineCombatNoHealth == <<TagCombatStart, Ws, W("name"), Eq, W("Wolf"), Close>>
LineCombatNegative ==
    <<TagCombatStart, Ws, W("name"), Eq, W("Wolf"), Comma, Ws,
      W("health"), Eq, Num("-", 5), Close>>
LineCombatNoName == <<TagCombatStart, Ws, W("health"), Eq, Num("", 30), Close>>
LineCombatEndThenProse ==
    <<TagCombatEnd, Ws, W("The"), Ws, W("wolf"), Ws, W("falls.")>>
LineBlank == <<>>

ParserLines ==
    {LineProse, LineTorchProse, LineBlank, LineAddTorch, LineIndentedAdd,
     LineImageTorch, LineStatBad, LineRest, LineCombatStart, LineCombatNoHealth,
     LineCombatNegative, LineCombatNoName, LineCombatEnd, LineCombatEndThenProse}

ParserTexts == UNION {[1..k -> ParserLines] : k \in 1..MaxParsedLines}

InitParser ==
    /\ Mounted(Null)
    /\ parserInput \in ParserTexts
    /\ parsed = Null

Parse ==
    /\ parsed = Null
    /\ parsed' = Some(parseGeminiResponse(parserInput))
    /\ UNCHANGED <<appVars, parserInput>>

NextParser == Parse

SpecParser == InitParser /\ [][NextParser]_vars


(***************************************************************************)
(* Properties.                                                             *)
(***************************************************************************)
\* The handler that ran last reconciled a reply to a player action.
Replied == last.op = "reply"
ReplyHas(line) == Replied /\ \E i \in 1..Len(last.reply) : last.reply[i] = line
ReplyHasInOrder(first, second) ==
    /\ Replied
    /\ \E i, j \in 1..Len(last.reply) :
          i < j /\ last.reply[i] = first /\ last.reply[j] = second

Count(seq, x) == Cardinality({i \in 1..Len(seq) : seq[i] = x})
Pending(segment) == segment.isImageLoading = Some(TRUE)
ImageCompleted == last.op \in {"image", "imageFailed"}

\* C1: in every reachable state each player stat (health, mana, stamina) has
\* 0 <= current <= max, and its max is the one it started with: no delta,
\* of any sign and magnitude, takes current out of the range or changes max.
C1_StatsClamped ==
    \A statKey \in DOMAIN playerStats :
        /\ 0 <= playerStats[statKey].current
        /\ playerStats[statKey].current <= playerStats[statKey].max
        /\ playerStats[statKey].max = DefaultStats[statKey].max

\* A reply with health=-150 was reconciled and health is 0 of 100.
C1_Witness ==
    /\ ReplyHas(LineHurt)
    /\ playerStats.health = [current |-> 0, max |-> 100]

\* C2: whenever an Enemy exists its health has 0 <= current <= max.
C2_EnemyHealthClamped ==
    currentEnemy # Null =>
        /\ 0 <= currentEnemy[1].health.current
        /\ currentEnemy[1].health.current <= currentEnemy[1].health.max

\* C3: the ids of the segments of the log are strictly increasing in log
\* order, hence no two segments have the same id.
C3_SegmentIdsIncreasing ==
    \A i, j \in 1..Len(storyHistory) :
        i < j => storyHistory[i].id < storyHistory[j].id

\* C4: in every reachable state isInCombat is true if and only if
\* currentEnemy is not null.
C4_CombatFlagIffEnemy == isInCombat <=> currentEnemy # Null

\* A snapshot written during combat was loaded.
C4_Witness == last.op = "load" /\ isInCombat /\ currentEnemy # Null

\* C5: after a reply that holds both a valid COMBAT_START line and a
\* COMBAT_END line, in either order, combat is inactive and there is no Enemy.
C5_EndOverridesStart ==
    (ReplyHas(LineCombatStart) /\ ReplyHas(LineCombatEnd)) =>
        (~isInCombat /\ currentEnemy = Null)

\* The reply had COMBAT_END on the line before COMBAT_START.
C5_Witness ==
    /\ ReplyHasInOrder(LineCombatEnd, LineCombatStart)
    /\ ~isInCombat /\ currentEnemy = Null

\* C6: the completion of an image fetch issued for a segment of the current
\* log resolves that segment and changes no other segment of the log.
C6_ImageDoneTouchesOnlyTarget ==
    [][(ImageCompleted' /\ ~last'.fetch[1].stale) =>
          /\ Len(storyHistory') = Len(storyHistory)
          /\ ~Pending(storyHistory'[last'.fetch[1].pos])
          /\ \A i \in 1..Len(storyHistory) :
                i # last'.fetch[1].pos => storyHistory'[i] = storyHistory[i]]_vars

\* C7: the completion of an image fetch issued for a log that has since been
\* cleared or replaced changes no segment of the current log.
C7_StaleImageDoneIsNoOp ==
    [][(ImageCompleted' /\ last'.fetch[1].stale) =>
          storyHistory' = storyHistory]_vars

\* C8: a segment that is not image-pending never becomes pending; a segment
\* is pending when it enters the log only if it was created for a reply
\* that holds an IMAGE_PROMPT line; no segment of a loaded log is pending.
C8_ImageStateForward ==
    [][/\ last'.op \notin {"mount", "start", "opening", "load", "restart"} =>
            /\ Len(storyHistory') >= Len(storyHistory)
            /\ \A i \in 1..Len(storyHistory) :
                  ~Pending(storyHistory[i]) => ~Pending(storyHistory'[i])
            /\ \A i \in (Len(storyHistory) + 1)..Len(storyHistory') :
                  Pending(storyHistory'[i]) =>
                      (last'.op = "reply" /\ \E k \in 1..Len(last'.reply) :
                                                 last'.reply[k] = LineImage)
       /\ last'.op \in {"mount", "start", "opening", "load", "restart"} =>
            \A i \in 1..Len(storyHistory') :
                  Pending(storyHistory'[i]) =>
                      (last'.op = "opening" /\ \E k \in 1..Len(last'.reply) :
                                                   last'.reply[k] = LineImage)
      ]_vars

\* The fetch for a segment of the current log completed: the segment was
\* pending and is resolved, with its image.
C8_Witness ==
    /\ last.op = "image" /\ ~last.fetch[1].stale
    /\ storyHistory[last.fetch[1].pos].isImageLoading = Some(FALSE)
    /\ storyHistory[last.fetch[1].pos].imageUrl # Null

\* C9: the inventory never holds an item twice, and after a reply that
\* adds the torch (with or without a removal of it in the same reply, and
\* whether or not it was held before) the torch is held exactly once.
C9_InventoryIsSet ==
    /\ \A i, j \in 1..Len(inventory) : i < j => inventory[i] # inventory[j]
    /\ ReplyHas(LineAddTorch) => Count(inventory, "torch") = 1

\* The reply added the torch twice.
C9_Witness ==
    /\ last.reply = <<LineProse, LineAddTorch, LineAddTorch>>
    /\ Replied
    /\ inventory = <<"torch">>

\* C10: after a reply that adds the torch and removes it on a later line,
\* the torch is not in the inventory.
C10_AddThenRemoveLeavesAbsent ==
    ReplyHasInOrder(LineAddTorch, LineRemoveTorch) => Count(inventory, "torch") = 0

Has(reply, line) == \E i \in 1..Len(reply) : reply[i] = line

\* The enemyHealth delta a reply ends up with: that of its last such line.
EnemyDelta(reply) ==
    LET at == {i \in 1..Len(reply) : reply[i] \in {LineHitEnemy, LineHealEnemy}}
    IN IF at = {} THEN Null
       ELSE Some(IF reply[Max(at)] = LineHitEnemy THEN 0 - 150 ELSE 50)

\* The Enemy after the combat transitions of a reply, as section 4.2 of the
\* specification orders them: none after COMBAT_END, the Wolf after
\* COMBAT_START, else as before.
EnemyAfterTransitions(reply, enemy) ==
    IF Has(reply, LineCombatEnd) THEN Null
    ELSE IF Has(reply, LineCombatStart)
         THEN Some([name |-> "Wolf", health |-> [current |-> 30, max |-> 30]])
         ELSE enemy

C12_ActionFailureRecoverable ==
    [][last'.op = "replyFailed" =>
          /\ Len(storyHistory') = Len(storyHistory) + 1
          /\ SubSeq(storyHistory', 1, Len(storyHistory)) = storyHistory
          /\ storyHistory'[Len(storyHistory')].type = "system"
          /\ inventory' = inventory
          /\ playerStats' = playerStats
          /\ isInCombat' = isInCombat
          /\ currentEnemy' = currentEnemy
          /\ gameState' = gameState
          /\ ~isLoading'
          /\ gameState = "PLAYING" =>
                /\ inventory' = pendingAction[1].inventory
                /\ CanSubmitAction']_vars

\* The call failed in combat, with the torch held: nothing of it was lost.
C12_Witness ==
    /\ last.op = "replyFailed"
    /\ gameState = "PLAYING" /\ ~isLoading
    /\ storyHistory[Len(storyHistory)].type = "system"
    /\ inventory = <<"torch">>
    /\ isInCombat /\ currentEnemy # Null

SaveRan == {"save:ok", "save:quota", "save:error"}
SessionEnded == {"restart", "start", "mount"}
QuotaWarnings ==
    Cardinality({i \in 1..Len(storyHistory) : storyHistory[i].text = QuotaWarning})

\* C13: once a write of auto-save has failed with QuotaExceededError,
\* isSaveDisabledByQuota is set, and while it is set no timer of auto-save
\* is pending, saveGame does not run and the store does not change; only a
\* restart, a new adventure or a reload of the page clears it.
C13_QuotaDisablesAutoSave ==
    [][/\ last'.op = "save:quota" => isSaveDisabledByQuota'
       /\ isSaveDisabledByQuota =>
             /\ saveTimer = <<>>
             /\ last'.op \notin SaveRan
             /\ localStorage' # localStorage => last'.op \in SessionEnded
             /\ ~isSaveDisabledByQuota' => last'.op \in SessionEnded]_vars

\* Play went on with auto-save disabled: a reply that added the torch was
\* reconciled.
C13_Witness ==
    /\ isSaveDisabledByQuota
    /\ Replied
    /\ ReplyHas(LineAddTorch) /\ inventory = <<"torch">>
    /\ QuotaWarnings = 1

\* C14: the log never holds more than one quota warning.
C14_QuotaWarnedOnce == QuotaWarnings <= 1

\* The warning is in the log and two more segments came after it.
C14_Witness ==
    /\ \E i \in 1..Len(storyHistory) :
          storyHistory[i].text = QuotaWarning /\ i + 2 <= Len(storyHistory)
    /\ gameState = "PLAYING"
    /\ isSaveDisabledByQuota

\* The ids, kinds and texts of a log.
Told(history) ==
    [i \in 1..Len(history) |->
        [id |-> history[i].id, type |-> history[i].type, text |-> history[i].text]]

SavedGameKeys ==
    {"storyHistory", "chatHistory", "inventory", "playerStats", "isInCombat",
     "currentEnemy"}

\* C15: the snapshot a successful auto-save leaves in the store holds the
\* inventory, player stats, combat flag and Enemy of that moment and the
\* ids, kinds and texts of the log; loading a snapshot auto-save wrote sets
\* inventory, player stats, combat flag and Enemy to the ones it holds and
\* the log to its ids, kinds and texts, with no segment image-pending.
C15_SaveLoadRoundTrip ==
    [][/\ last'.op = "save:ok" =>
             \E snapshot \in {JSONparse(localStorage'[1])[1]} :
                /\ snapshot.inventory = inventory
                /\ snapshot.playerStats = playerStats
                /\ snapshot.isInCombat = isInCombat
                /\ snapshot.currentEnemy = currentEnemy
                /\ snapshot.storyHistory = Told(storyHistory)
       /\ (/\ last'.op = "load" /\ gameState' = "PLAYING"
           /\ DOMAIN JSONparse(localStorage[1])[1] = SavedGameKeys) =>
             \E snapshot \in {JSONparse(localStorage[1])[1]} :
                /\ inventory' = snapshot.inventory
                /\ playerStats' = snapshot.playerStats
                /\ isInCombat' = snapshot.isInCombat
                /\ currentEnemy' = snapshot.currentEnemy
                /\ Told(storyHistory') = snapshot.storyHistory
                /\ \A i \in 1..Len(storyHistory') : ~Pending(storyHistory'[i])]_vars

\* A game with five segments, the torch, a wounded player and an Enemy was
\* loaded.
C15_Witness ==
    /\ last.op = "load" /\ gameState = "PLAYING"
    /\ Len(storyHistory) = 5
    /\ inventory = <<"torch">>
    /\ playerStats.health.current = 0
    /\ isInCombat /\ currentEnemy # Null

\* The store holds a string that is not JSON, or an object without the
\* narrative log or without the transcript.
InvalidSnapshot ==
    /\ localStorage # Null
    /\ \/ JSONparse(localStorage[1]) = Null
       \/ "storyHistory" \notin DOMAIN JSONparse(localStorage[1])[1]
       \/ "chatHistory" \notin DOMAIN JSONparse(localStorage[1])[1]

\* C16: a load that finds an invalid snapshot leaves the log, the inventory,
\* the player stats, the combat flag and the Enemy as they were, does not
\* enter PLAYING, and removes the snapshot from the store.
C16_InvalidSnapshotAbortsLoad ==
    [][(last'.op = "load" /\ InvalidSnapshot) =>
          /\ storyHistory' = storyHistory
          /\ inventory' = inventory
          /\ playerStats' = playerStats
          /\ isInCombat' = isInCombat
          /\ currentEnemy' = currentEnemy
          /\ gameState' # "PLAYING"
          /\ localStorage' = Null
          /\ ~hasSaveGame']_vars

\* The load found an object without the log or the transcript.
C16_Witness ==
    /\ last.op = "load"
    /\ errorMessage = Some("Failed to load saved game. Save data is corrupted.")
    /\ gameState = "ERROR"
    /\ localStorage = Null

\* C17: at most one call of continueAdventure is outstanding; while one is,
\* isLoading is true and the form takes no action; no adventure is being
\* started at the same time.
C17_ActionsSerialized ==
    /\ Len(pendingAction) <= 1
    /\ pendingAction # <<>> => (isLoading /\ ~CanSubmitAction /\ ~pendingStart)

\* A second action was submitted after the first was answered, and is
\* outstanding.
C17_Witness ==
    /\ last.op = "action"
    /\ Len(pendingAction) = 1
    /\ Len(storyHistory) = 4
    /\ isLoading

\* parseGeminiResponse has returned.
Returned == parsed # Null

InText(line) == \E i \in 1..Len(parserInput) : parserInput[i] = line
TextOnly(lines) == SelectSeq(parserInput, LAMBDA line : line \in lines)

\* The statUpdates as a set of <<key, value>> pairs.
StatPairs == {parsed[1].statUpdates[i] : i \in 1..Len(parsed[1].statUpdates)}

\* C18: what parseGeminiResponse returns for a text with malformed lines is
\* what its well-formed lines say.  The line
\* [STAT_UPDATE: health=abc, mana=+5] gives mana 5 and no health; health is
\* there, as 60, exactly if the text has [STAT_UPDATE: health=+60].  Only the
\* line [COMBAT_START: name=Wolf, health=30] gives a combat start: the lines
\* without health, with health=-5 or without name give none, and none of
\* their text is in the narrative.  The torches added, the image prompt and
\* the combat end are those of the lines that say so, wherever the
\* malformed lines stand.
C18_MalformedDirectiveDropped ==
    Returned =>
        /\ StatPairs = (IF InText(LineStatBad) THEN {<<"mana", 5>>} ELSE {})
                       \cup (IF InText(LineRest) THEN {<<"health", 60>>} ELSE {})
        /\ parsed[1].combatStart =
              IF InText(LineCombatStart)
              THEN Some([name |-> "Wolf", health |-> 30])
              ELSE Null
        /\ ~InText(LineCombatEndThenProse) =>
              parsed[1].narrative =
                 Text(Trim(JoinLines(TextOnly({LineProse, LineTorchProse, LineBlank}))))
        /\ parsed[1].itemsToAdd =
              [i \in 1..Len(TextOnly({LineAddTorch, LineIndentedAdd})) |-> "torch"]
        /\ parsed[1].itemsToRemove = <<>>
        /\ parsed[1].imagePrompt =
              IF InText(LineImageTorch) THEN Some("a torch on a table") ELSE Null
        /\ parsed[1].combatEnd = InText(LineCombatEnd)

\* A malformed COMBAT_START line and the malformed STAT_UPDATE line came
\* before the line that adds the torch.
C18_Witness ==
    /\ Returned
    /\ parserInput = <<LineCombatNoHealth, LineStatBad, LineAddTorch>>
    /\ parsed[1].statUpdates = << <<"mana", 5>> >>
    /\ parsed[1].combatStart = Null
    /\ parsed[1].narrative = ""
    /\ parsed[1].itemsToAdd = <<"torch">>

\* A line starts with a directive tag, after leading whitespace.
StartsWithTag(line) == TrimLeft(line) # <<>> /\ Head(TrimLeft(line)).t = "tag"

\* C19: the narrative parseGeminiResponse returns is the lines of the text
\* that do not start with a directive tag, in their order, joined and
\* trimmed; and the text 'You pick up a torch.', '[INVENTORY_ADD: torch]',
\* '[IMAGE_PROMPT: a torch on a table]' gives the narrative
\* 'You pick up a torch.', itemsToAdd ['torch'] and the image prompt
\* 'a torch on a table'.
C19_NarrativeIsUntaggedLines ==
    Returned =>
        /\ parsed[1].narrative =
              Text(Trim(JoinLines(SelectSeq(parserInput,
                                            LAMBDA line : ~StartsWithTag(line)))))
        /\ parserInput = <<LineTorchProse, LineAddTorch, LineImageTorch>> =>
              /\ parsed[1].narrative = "You pick up a torch."
              /\ parsed[1].itemsToAdd = <<"torch">>
              /\ parsed[1].imagePrompt = Some("a torch on a table")

\* C20: the reconciliation of a reply appends exactly one segment to the
\* log, a narrative segment with the narrative of the reply; the segment is
\* image-pending exactly if the reply has an IMAGE_PROMPT line, and then
\* exactly one image fetch is issued, for the id of that segment; without
\* such a line none is issued.
C20_ReplyAppendsOneNarrative ==
    [][last'.op = "reply" =>
          /\ Len(storyHistory') = Len(storyHistory) + 1
          /\ SubSeq(storyHistory', 1, Len(storyHistory)) = storyHistory
          /\ storyHistory'[Len(storyHistory')].type = "narrative"
          /\ storyHistory'[Len(storyHistory')].text = "You wait."
          /\ Pending(storyHistory'[Len(storyHistory')]) <=> Has(last'.reply, LineImage)
          /\ IF Has(last'.reply, LineImage)
             THEN /\ imageFetches \subseteq imageFetches'
                  /\ Cardinality(imageFetches' \ imageFetches) = 1
                  /\ \A f \in imageFetches' \ imageFetches :
                        f.id = storyHistory'[Len(storyHistory')].id /\ ~f.stale
             ELSE imageFetches' = imageFetches]_vars

\* The reply had two IMAGE_PROMPT lines: one fetch is out, for the new
\* segment, which is pending.
C20_Witness ==
    /\ Replied
    /\ last.reply = <<LineProse, LineImage, LineImage>>
    /\ Pending(storyHistory[Len(storyHistory)])
    /\ imageFetches = {[id |-> storyHistory[Len(storyHistory)].id,
                        pos |-> Len(storyHistory), stale |-> FALSE]}

(***************************************************************************)
(* The auto-save timer.                                                    *)
(***************************************************************************)
\* What a saveGame created in the current render would read.
World ==
    SaveClosure(storyHistory, inventory, playerStats, isInCombat, currentEnemy,
                chatSession)

\* C21: auto-save is debounced.  At most one timer is pending at any time; a
\* change of the log, the inventory, the stats or the combat state made
\* while a timer is pending, the game goes on and auto-save is enabled
\* leaves exactly one timer, started for the changed state; a write carries the state of the moment
\* it is made, and the timer that made it is gone, so that the changes that
\* precede it produce that single write.
C21_AutoSaveDebounced ==
    [][/\ Len(saveTimer') <= 1
       /\ (/\ saveTimer # <<>> /\ World' # World
           /\ gameState' = "PLAYING" /\ ~isSaveDisabledByQuota')
             => saveTimer' = <<World'>>
       /\ (localStorage' # localStorage /\ localStorage' # Null)
             => /\ localStorage' = Some(JSONstringify(SaveData(World)))
                /\ saveTimer' = <<>>]_vars

\* An opening, an action and its reply have followed each other with no
\* write in between, and one timer is pending, for the state after the reply.
C21_Witness ==
    /\ last.op = "reply"
    /\ Len(storyHistory) = 3
    /\ localStorage = Null
    /\ Len(saveTimer) = 1
    /\ saveTimer[1].storyHistory = storyHistory
    /\ saveTimer[1].inventory = <<"torch">>

(***************************************************************************)
(* A new adventure.                                                        *)
(***************************************************************************)
\* C22: right after startAdventure returned, the log is one narrative
\* segment with id 0 and the text of the opening, the inventory is empty,
\* the stats are the defaults and there is no combat and no Enemy, whatever
\* the session before held and whatever directives the opening carries.
C22_FreshWorldAfterStart ==
    last.op = "opening" =>
        /\ gameState = "PLAYING"
        /\ Len(storyHistory) = 1
        /\ storyHistory[1].id = 0
        /\ storyHistory[1].type = "narrative"
        /\ storyHistory[1].text = ParseTable[last.reply].narrative
        /\ inventory = <<>>
        /\ playerStats = DefaultStats
        /\ playerStats.health = [current |-> 100, max |-> 100]
        /\ playerStats.mana = [current |-> 50, max |-> 50]
        /\ playerStats.stamina = [current |-> 80, max |-> 80]
        /\ ~isInCombat
        /\ currentEnemy = Null

\* The opening declared a torch and a fight, and the world is fresh.
C22_Witness ==
    /\ last.op = "opening"
    /\ last.reply = <<LineProse, LineAddTorch, LineCombatStart>>
    /\ inventory = <<>>
    /\ ~isInCombat
    /\ Len(storyHistory) = 1

(***************************************************************************)
(* COMBAT_START.                                                           *)
(***************************************************************************)
StartsCombat(reply) == Has(reply, LineCombatStart) /\ ~Has(reply, LineCombatEnd)

\* C23, as stated: after a reply with COMBAT_START and no COMBAT_END combat
\* is active and the Enemy is the declared one at full health.
C23_FreshEnemyAtFullHealth ==
    (Replied /\ StartsCombat(last.reply)) =>
        /\ isInCombat
        /\ currentEnemy = Some([name |-> "Wolf", health |-> [current |-> 30, max |-> 30]])

\* C23, amended: after a reply with COMBAT_START and no COMBAT_END combat is
\* active and the Enemy is a fresh one, whatever Enemy there was before: its
\* name is the declared name and its max the declared health; its current
\* health is the declared health when the reply carries no enemyHealth
\* delta, and else the declared health changed by that delta, not below 0.
C23_FreshEnemyThenDelta ==
    [][(last'.op = "reply" /\ StartsCombat(last'.reply)) =>
          /\ isInCombat'
          /\ currentEnemy' # Null
          /\ currentEnemy'[1].name = "Wolf"
          /\ currentEnemy'[1].health.max = 30
          /\ IF EnemyDelta(last'.reply) = Null
             THEN currentEnemy'[1].health.current = 30
             ELSE IF EnemyDelta(last'.reply)[1] < 0
                  THEN currentEnemy'[1].health.current =
                          MathMax(0, 30 + EnemyDelta(last'.reply)[1])
                  ELSE currentEnemy'[1].health.current >= 30]_vars

\* The second reply of a session declared the Wolf, by itself; the first
\* may have left a damaged one.
C23_Witness ==
    /\ Replied
    /\ last.reply = <<LineProse, LineCombatStart>>
    /\ Len(storyHistory) = 5
    /\ isInCombat
    /\ currentEnemy = Some([name |-> "Wolf", health |-> [current |-> 30, max |-> 30]])

(***************************************************************************)
(* A write of auto-save that fails, the store not being full.              *)
(***************************************************************************)
\* C24: when saveGame fails with an exception other than QuotaExceededError,
\* isSaveDisabledByQuota stays false, the log, the store and hasSaveGame are
\* as they were, and auto-save goes on with its next cycle: the failed timer
\* is gone, and the next change of the state in play starts a timer that
\* will write the state of that moment.
C24_SaveErrorKeepsAutoSave ==
    [][/\ last'.op = "save:error" =>
             /\ ~isSaveDisabledByQuota'
             /\ storyHistory' = storyHistory
             /\ localStorage' = localStorage
             /\ hasSaveGame' = hasSaveGame
             /\ gameState' = "PLAYING"
             /\ saveTimer' = <<>>
       /\ (last.op = "save:error" /\ World' # World /\ gameState' = "PLAYING") =>
             saveTimer' = <<World'>>]_vars

\* The first write of a session failed after an action and its reply:
\* nothing is stored, nothing was added to the log, auto-save is enabled.
C24_Witness ==
    /\ last.op = "save:error"
    /\ gameState = "PLAYING"
    /\ ~isSaveDisabledByQuota
    /\ Len(storyHistory) = 3
    /\ \A i \in 1..3 : storyHistory[i].type # "system"
    /\ localStorage = Null

(***************************************************************************)
(* What a segment of the log keeps.                                        *)
(***************************************************************************)
LogReplaced == {"mount", "start", "load", "restart"}

\* C25: as long as the log is not cleared or replaced (a restart, a new
\* adventure, a load, a reload of the page), every segment in it keeps
\* its place, its id, its type and its text; and the completion of an image
\* fetch leaves the length and the order of the log, the inventory, the
\* player stats, the combat flag and the Enemy as they were.
C25_SegmentsImmutable ==
    [][/\ last'.op \notin LogReplaced =>
             /\ Len(storyHistory') >= Len(storyHistory)
             /\ \A i \in 1..Len(storyHistory) :
                   /\ storyHistory'[i].id = storyHistory[i].id
                   /\ storyHistory'[i].type = storyHistory[i].type
                   /\ storyHistory'[i].text = storyHistory[i].text
       /\ ImageCompleted' =>
             /\ Len(storyHistory') = Len(storyHistory)
             /\ inventory' = inventory
             /\ playerStats' = playerStats
             /\ isInCombat' = isInCombat
             /\ currentEnemy' = currentEnemy
             /\ gameState' = gameState
             /\ isLoading' = isLoading]_vars

\* A fetch for the third segment of the log failed while the torch was held
\* and a fight was on: the segment is resolved, with the text it had.
C25_Witness ==
    /\ last.op = "imageFailed" /\ ~last.fetch[1].stale
    /\ last.fetch[1].pos = 3
    /\ Len(storyHistory) >= 3
    /\ storyHistory[3].type = "narrative"
    /\ storyHistory[3].isImageLoading = Some(FALSE)
    /\ inventory = <<"torch">>
    /\ isInCombat

(***************************************************************************)
(* After a restart.                                                        *)
(***************************************************************************)
\* C26: after handleRestart the store holds nothing, hasSaveGame is false
\* and no timer of auto-save is pending; and from a state out of PLAYING
\* with an empty store, the store stays empty and hasSaveGame false for as
\* long as the game is not PLAYING: the first write after a restart is one
\* of the adventure that reached PLAYING after it, and it carries the state
\* of the moment it is made.
C26_RestartLeavesNoSnapshot ==
    [][/\ last'.op = "restart" =>
             /\ localStorage' = Null
             /\ ~hasSaveGame'
             /\ saveTimer' = <<>>
             /\ gameState' = "START_SCREEN"
       /\ (gameState # "PLAYING" /\ localStorage = Null /\ ~hasSaveGame) =>
             /\ localStorage' = Null
             /\ ~hasSaveGame'
       /\ (localStorage = Null /\ localStorage' # Null) =>
             /\ gameState = "PLAYING"
             /\ JSONparse(localStorage'[1])[1].storyHistory =
                   StoryHistoryForSave(storyHistory)
             /\ JSONparse(localStorage'[1])[1].inventory = inventory]_vars

\* A game with a snapshot in the store was restarted while an action was
\* pending; its reply has come since, on the start screen, and the store is
\* empty.
C26_Witness ==
    /\ gameState = "START_SCREEN"
    /\ last.op = "reply"
    /\ Len(storyHistory) = 1
    /\ chatSession = Null
    /\ localStorage = Null
    /\ ~hasSaveGame
    /\ saveTimer = <<>>

(***************************************************************************)
(* Several deltas for one stat in a reply.                                 *)
(***************************************************************************)
\* The entries of the STAT_UPDATE lines of the replies, as written.
DeltasOf(line) ==
    IF line = LineHurt
    THEN <<<<"health", 0 - 150>>, <<"mana", 0 - 60>>, <<"stamina", 0 - 90>>>>
    ELSE IF line = LineRest THEN <<<<"health", 60>>>>
    ELSE IF line = LineWaver THEN <<<<"health", 0 - 150>>, <<"health", 60>>>>
    ELSE IF line = LineHitEnemy THEN <<<<"enemyHealth", 0 - 150>>>>
    ELSE IF line = LineHealEnemy THEN <<<<"enemyHealth", 50>>>>
    ELSE <<>>

RECURSIVE ReplyDeltas(_)
ReplyDeltas(reply) ==
    IF reply = <<>> THEN <<>>
    ELSE DeltasOf(Head(reply)) \o ReplyDeltas(Tail(reply))

DeltasFor(reply, key) ==
    SelectSeq(ReplyDeltas(reply), LAMBDA entry : entry[1] = key)

\* C27: when a reply is reconciled, each player stat for which it carries
\* one or more deltas, on one STAT_UPDATE line or on several, becomes its
\* value before the reply plus the last of these deltas, clamped to
\* [0, max]; a stat for which it carries none keeps its value.
C27_LastDeltaWins ==
    [][last'.op = "reply" =>
          \A key \in {"health", "mana", "stamina"} :
              LET deltas == DeltasFor(last'.reply, key)
              IN /\ playerStats'[key].max = playerStats[key].max
                 /\ playerStats'[key].current =
                       IF deltas = <<>> THEN playerStats[key].current
                       ELSE MathMax(0, MathMin(playerStats[key].max,
                                               playerStats[key].current
                                                   + deltas[Len(deltas)][2]))]_vars

\* health=-150 on one line, then health=-150 and health=+60 on the next:
\* the sum would leave 0, the last delta leaves the health full.
C27_Witness ==
    /\ Replied
    /\ last.reply = <<LineProse, LineHurt, LineWaver>>
    /\ playerStats.health.current = 100
    /\ playerStats.mana.current = 0

(***************************************************************************)
(* Progress.                                                               *)
(***************************************************************************)
ActionSettled == last.op \in {"reply", "replyFailed"}

\* C28: a call of continueAdventure that is outstanding does not stay so:
\* it leads to a state with no call outstanding and isLoading false.  The
\* step that settles it clears isLoading and appends exactly one segment to
\* the log, a narrative one when the call returned and a system one when it
\* threw, behind the segment of the action if the log still holds it; when
\* the reply asks for an image, that segment is appended image-pending: the
\* step does not wait for the fetch.
C28_ActionCompletes ==
    /\ (pendingAction # <<>>) ~> (pendingAction = <<>> /\ ~isLoading)
    /\ [][ActionSettled' =>
             /\ pendingAction # <<>> /\ pendingAction' = <<>>
             /\ ~isLoading'
             /\ Len(storyHistory') = Len(storyHistory) + 1
             /\ SubSeq(storyHistory', 1, Len(storyHistory)) = storyHistory
             /\ storyHistory'[Len(storyHistory')].type =
                   (IF last'.op = "reply" THEN "narrative" ELSE "system")
             /\ (last'.op = "reply" /\ Has(last'.reply, LineImage)) =>
                   Pending(storyHistory'[Len(storyHistory')])]_vars

\* A reply that asks for an image was reconciled behind its action: the
\* form is free again and the image is still being fetched.
C28_Witness ==
    /\ Replied
    /\ Has(last.reply, LineImage)
    /\ ~isLoading /\ pendingAction = <<>>
    /\ Len(storyHistory) = 3
    /\ storyHistory[2].type = "action"
    /\ storyHistory[3].type = "narrative"
    /\ Pending(storyHistory[3])
    /\ imageFetches # {}

PendingAt(i) == i <= Len(storyHistory) /\ Pending(storyHistory[i])

\* C29: a segment of the log that is image-pending does not stay so: from
\* every state in which the segment at a place of the log is pending, a
\* state is reached in which that place holds no pending segment (the
\* segment is resolved, or the log was cleared or replaced), whatever
\* actions, replies, writes and quota warnings come in between; and as long
\* as a segment is pending, a fetch issued for its id is in flight.
C29_PendingImageResolves ==
    /\ \A i \in 1..MaxLog : PendingAt(i) ~> ~PendingAt(i)
    /\ [](\A i \in 1..MaxLog :
             PendingAt(i) => \E f \in imageFetches : f.id = storyHistory[i].id)

\* The fetch for the opening segment completed after an action, its reply
\* and a quota warning had been added to the log behind it.
C29_Witness ==
    /\ ImageCompleted /\ ~last.fetch[1].stale
    /\ last.fetch[1].pos = 1
    /\ ~PendingAt(1)
    /\ Len(storyHistory) >= 4
    /\ QuotaWarnings = 1
    /\ gameState = "PLAYING"

=============================================================================
